---- MODULE Spec2Model ----
(***************************************************************************)
(* Model of openapilib.spec (py-openapilib): the type-to-schema compiler   *)
(* Schema.from_type and its helpers.                                       *)
(*                                                                         *)
(* Python values are modelled as records tagged by a field k:              *)
(*   "class"       a class object (builtin or user defined), by name       *)
(*   "GenericMeta" a typing generic (List, Dict, Set), bare or             *)
(*                 subscripted.  The module imports typing.GenericMeta,    *)
(*                 which only the typing of Python 3.5/3.6 has; there      *)
(*                 GenericMeta.__new__ sets __origin__ = origin and        *)
(*                 __args__ = tuple(args) if args else None, so a bare     *)
(*                 generic has both attributes, with the value None, and   *)
(*                 List[X] is a class derived from list                    *)
(*   "_Union"      typing.Union, bare or subscripted (two or more args:    *)
(*                 Union[X] is X itself)                                   *)
(*   "_ClassVar"   typing.ClassVar[X] (or bare: __type__ = None)           *)
(*   "_Any"        typing.Any                                              *)
(*   "dict"        a dict instance, as its items() sequence                *)
(*   "Schema", "Reference"  entities of the object model                   *)
(*   "NoneType", "int_value" other instances                               *)
(***************************************************************************)
EXTENDS Integers, Sequences, FiniteSets, TLC

\* ------------------------------------------------------------------ bounds
\* Nesting depth of the source type descriptors that are enumerated.
MaxDepth == 1
\* Largest number of keyword overrides in one call.
MaxKwargs == 1

\* ------------------------------------------------------------ python values
EmptyMap == [x \in {} |-> x]

None == [k |-> "NoneType"]

\* The SKIP sentinel.  A Schema field holds SKIP exactly when it is not in
\* the domain of the field map f of the Schema record.
SKIP == [k |-> "Sentinel", name |-> "SKIP"]

Class(n) == [k |-> "class", name |-> n]

\* Names of the attributes attr.s generates __init__ parameters for
\* (the leading underscore of _type is stripped by attrs).
SchemaInitArgs ==
    { "title", "description", "default", "examples", "definitions", "type",
      "multiple_of", "maximum", "exclusive_maximum", "minimum",
      "exclusive_minimum", "max_length", "min_length", "pattern", "items",
      "additional_items", "format", "all_of", "one_of", "not_", "any_of",
      "properties", "additional_properties", "required", "read_only",
      "write_only", "example", "ref_name" }

NewSchema(fields) == [k |-> "Schema", f |-> fields]

Reference(ref) == [k |-> "Reference", ref |-> ref]

\* ---------------------------------------------------------------- outcomes
\* The outcome of a call: a returned value or a raised exception, together
\* with the fallback-handler invocations made during the call, in order.
NoCause == [type |-> "None"]

Exc(type, msg, subject, cause) ==
    [type |-> type, msg |-> msg, subject |-> subject, cause |-> cause]

Ok(v, calls) == [st |-> "ok", v |-> v, calls |-> calls]

Raise(e, calls) == [st |-> "raise", exc |-> e, calls |-> calls]

\* ------------------------------------------------------------- class objects
\* The class objects that are enumerated as sources: builtins and three user
\* classes (class Book: ..., class Child(Book): ..., class MyStr(str): ...).
ClassNames ==
    { "str", "int", "float", "bool", "list", "tuple", "dict", "object",
      "Book", "Child", "MyStr" }

UserClasses == {"Book", "Child", "MyStr"}

\* The base classes a class statement names (for a builtin, its one base
\* other than object).
declared_bases(n) ==
    CASE n = "bool"  -> <<"int">>
      [] n = "Child" -> <<"Book">>
      [] n = "MyStr" -> <<"str">>
      [] OTHER       -> <<>>

\* cls.__bases__: a class whose statement names no base has (object,), and
\* only object itself has the empty tuple.
bases(n) ==
    IF n = "object" THEN <<>>
    ELSE IF declared_bases(n) = <<>> THEN <<"object">>
    ELSE declared_bases(n)

RECURSIVE issubclass(_, _)
issubclass(n, base) ==
    \/ n = base
    \/ \E i \in DOMAIN bases(n) : issubclass(bases(n)[i], base)

\* key.startswith('_') for the member names that occur in the model.
startswith_underscore(key) ==
    key \in { "__module__", "__dict__", "__weakref__", "__doc__", "__repr__",
              "_secret" }

\* cls.__dict__.items(), in definition order.
class_dict_items(n) ==
    CASE n = "Book" ->
            << [key |-> "__module__", value |-> None],
               [key |-> "name", value |-> Class("str")],
               [key |-> "pages", value |-> Class("int")],
               [key |-> "_secret", value |-> Class("str")],
               [key |-> "__dict__", value |-> None],
               [key |-> "__weakref__", value |-> None],
               [key |-> "__doc__", value |-> None] >>
      [] n = "Child" ->
            << [key |-> "__module__", value |-> None],
               [key |-> "nickname", value |-> Class("str")],
               [key |-> "__doc__", value |-> None] >>
      [] n = "MyStr" ->
            << [key |-> "__module__", value |-> None],
               [key |-> "__dict__", value |-> None],
               [key |-> "__doc__", value |-> None] >>
      [] OTHER ->
            << [key |-> "__repr__", value |-> None],
               [key |-> "__doc__", value |-> None] >>

\* isinstance(source, type): class objects, and typing generics, whose
\* metaclass GenericMeta derives from type.
isinstance_type(source) == source.k \in {"class", "GenericMeta"}

\* The builtin class a typing generic derives from.
generic_base(name) ==
    CASE name = "List" -> "list" [] name = "Dict" -> "dict" [] OTHER -> "set"

\* source.__bases__ of a source that is a type.
bases_of(source) ==
    IF source.k = "class" THEN bases(source.name)
    ELSE <<generic_base(source.name)>>

\* ------------------------------------------------------------ typing objects
typing_Any == [k |-> "_Any"]

\* A subscripted generic origin[args]: __origin__ is the bare generic.
Generic(origin, args) ==
    [k |-> "GenericMeta", name |-> origin, origin |-> origin,
     args_is_none |-> FALSE, args |-> args]

\* A bare generic (List, Dict, Set): __origin__ is None, __args__ is None.
BareGeneric(name) ==
    [k |-> "GenericMeta", name |-> name, origin |-> "None",
     args_is_none |-> TRUE, args |-> <<>>]

UnionOf(args) ==
    [k |-> "_Union", name |-> "Union", origin |-> "Union",
     args_is_none |-> FALSE, args |-> args]

BareUnion ==
    [k |-> "_Union", name |-> "Union", origin |-> "None",
     args_is_none |-> TRUE, args |-> <<>>]

ClassVarOf(t) == [k |-> "_ClassVar", type |-> t]

DictOf(items) == [k |-> "dict", items |-> items]

\* ------------------------------------------------------------ Schema(...)
\* cls(**explicit, **kw): the attrs-generated Schema.__init__.  Python
\* raises TypeError for a keyword given twice and for a keyword that is no
\* attribute of Schema.
cls(explicit, kw, calls) ==
    IF DOMAIN explicit \cap DOMAIN kw # {}
    THEN Raise(Exc("TypeError", "got multiple values for keyword argument",
                   None, NoCause), calls)
    ELSE IF ~((DOMAIN explicit \cup DOMAIN kw) \subseteq SchemaInitArgs)
    THEN Raise(Exc("TypeError", "got an unexpected keyword argument",
                   None, NoCause), calls)
    ELSE Ok(NewSchema(explicit @@ kw), calls)

\* --------------------------------------------------------- fallback handler
\* The caller-supplied fallback_handler(source, kwargs): "None" is no
\* handler; the others are a handler that always returns None, one that
\* returns a Schema of its own, one that raises ValueError and one that
\* raises SchemaHelperUnhandled.
FallbackHandlers ==
    {"None", "returns_none", "returns_schema", "raises", "raises_unhandled"}

FallbackSchema == NewSchema("description" :> "made by fallback")

fallback_call(fb, source, kw) ==
    LET call == <<[source |-> source, kwargs |-> kw]>> IN
    CASE fb = "returns_none"   -> Ok(None, call)
      [] fb = "returns_schema" -> Ok(FallbackSchema, call)
      [] fb = "raises" ->
            Raise(Exc("ValueError", "raised by fallback", source, NoCause),
                  call)
      [] fb = "raises_unhandled" ->
            Raise(Exc("SchemaHelperUnhandled", "raised by fallback", source,
                      NoCause), call)

\* -------------------------------------------------------- Schema.from_type
SCHEMA_SIMPLE_TYPE_ARGS ==
    << [base |-> "str",   params |-> ("type" :> "string")],
       [base |-> "int",   params |-> ("type" :> "integer") @@ ("format" :> "int64")],
       [base |-> "float", params |-> ("type" :> "number") @@ ("format" :> "double")],
       [base |-> "bool",  params |-> ("type" :> "boolean")],
       [base |-> "list",  params |-> ("type" :> "array")],
       [base |-> "tuple", params |-> ("type" :> "array")] >>

RECURSIVE from_type(_, _, _)
RECURSIVE from_type_hint(_, _, _)
RECURSIVE from_properties(_, _, _)
RECURSIVE compile_each(_, _, _)

\* An outcome with the fallback invocations made
\* before it in the same call.
with_calls(calls, out) ==
    IF out.st = "ok" THEN Ok(out.v, calls \o out.calls)
    ELSE Raise(out.exc, calls \o out.calls)

\* One more element of a comprehension: r is the outcome of compiling it,
\* acc the outcome of the elements before it.
compile_next(acc, r) ==
    IF r.st = "raise" THEN Raise(r.exc, acc.calls \o r.calls)
    ELSE Ok(Append(acc.v, r.v), acc.calls \o r.calls)

\* [Schema.from_type(x, fallback_handler=fb) for x in srcs]: the list and
\* dict comprehensions of from_type_hint and from_properties; evaluation
\* stops at the first exception.  acc is the outcome so far.
compile_each(srcs, fb, acc) ==
    IF srcs = <<>> \/ acc.st = "raise" THEN acc
    ELSE compile_each(Tail(srcs), fb,
                      compile_next(acc, from_type(Head(srcs), fb, EmptyMap)))

\* except SchemaHelperError as exc: raise SchemaHelperError(msg) from exc,
\* around a comprehension; any other exception passes through.
reraise_helper_error(compiled, msg, subject) ==
    IF compiled.st = "raise" /\ compiled.exc.type = "SchemaHelperError"
    THEN Raise(Exc("SchemaHelperError", msg, subject, compiled.exc),
               compiled.calls)
    ELSE compiled

\* hint.__args__ compiled: hasattr(hint, '__args__') holds of every generic
\* and union, and iterating the None of a bare one raises TypeError.
hint_args(hint, fb) ==
    IF hint.args_is_none
    THEN Raise(Exc("TypeError", "'NoneType' object is not iterable", hint,
                   NoCause), <<>>)
    ELSE reraise_helper_error(
            compile_each(hint.args, fb, Ok(<<>>, <<>>)),
            "Could not create schemas for type hint's argument types.", hint)

\* from_type_hint from "if origin is List" on, given the compiled arguments.
from_origin(origin, hint, hint_arg_types, fb, kw, calls) ==
    IF origin = "List"
    THEN cls(("type" :> "array")
                @@ (IF hint_arg_types # <<>>
                    THEN ("items" :> hint_arg_types[1]) ELSE EmptyMap),
             kw, calls)
    ELSE IF origin = "Union"
    THEN IF hint_arg_types # <<>>
         THEN cls(("any_of" :> hint_arg_types)
                     @@ ("fallback_handler" :> [k |-> "function", name |-> fb]),
                  kw, calls)
         ELSE cls(EmptyMap, EmptyMap, calls)
    ELSE IF origin = "Dict"
    THEN cls(("type" :> "object")
                @@ (IF Len(hint_arg_types) >= 2
                    THEN ("additional_properties" :> hint_arg_types[2])
                    ELSE EmptyMap),
             kw, calls)
    ELSE IF origin = "ClassVar" /\ hint_arg_types # <<>>
    THEN with_calls(calls, from_type(hint_arg_types[1], fb, kw))
    ELSE Raise(Exc("SchemaHelperError", "Unsupported type hint", hint,
                   NoCause), calls)

\* The part of from_type_hint after the arguments were compiled.
after_hint_args(hint, compiled, fb, kw) ==
    IF compiled.st = "raise" THEN compiled
    ELSE from_origin(hint.origin, hint, compiled.v, fb, kw, compiled.calls)

from_type_hint(hint, fb, kw) ==
    IF hint.k = "_ClassVar" THEN from_type(hint.type, fb, kw)
    ELSE IF hint.k = "_Any" THEN cls(EmptyMap, EmptyMap, <<>>)
    ELSE IF hint.k \notin {"GenericMeta", "_Union"}
    THEN Raise(Exc("SchemaHelperUnhandled", "is not a type hint.", hint,
                   NoCause), <<>>)
    ELSE after_hint_args(hint, hint_args(hint, fb), fb, kw)

RECURSIVE simple_type_lookup(_, _)
\* for base, params in SCHEMA_SIMPLE_TYPE_ARGS.items(): the index of the
\* first entry the class is a subclass of, 0 when there is none.
simple_type_lookup(n, i) ==
    IF i > Len(SCHEMA_SIMPLE_TYPE_ARGS) THEN 0
    ELSE IF issubclass(n, SCHEMA_SIMPLE_TYPE_ARGS[i].base) THEN i
    ELSE simple_type_lookup(n, i + 1)

simple_type_schema(i, source, kw) ==
    IF i # 0 THEN cls(SCHEMA_SIMPLE_TYPE_ARGS[i].params, kw, <<>>)
    ELSE Raise(Exc("SchemaHelperUnhandled",
                   "is not a subclass of any of the simple types", source,
                   NoCause), <<>>)

from_builtin_simple_type(source, fb, kw) ==
    IF ~isinstance_type(source)
    THEN Raise(Exc("SchemaHelperUnhandled", "is not a type", source,
                   NoCause), <<>>)
    ELSE simple_type_schema(
            simple_type_lookup(
                IF source.k = "class" THEN source.name
                ELSE generic_base(source.name), 1),
            source, kw)

\* The values of a dict's items, in order.
values_of(items) == [i \in DOMAIN items |-> items[i].value]

\* Mutant of as_mapping: every key gets the schema of the first entry.
as_mapping_first_value(items, schemas) ==
    [key \in {items[i].key : i \in DOMAIN items} |-> schemas[1]]

\* {key: schema}: the dict built from the keys and the compiled values.
as_mapping(items, schemas) ==
    [key \in {items[i].key : i \in DOMAIN items} |->
        schemas[CHOOSE i \in DOMAIN items : items[i].key = key]]

\* cls(type='object', properties={...}, **kwargs), given the outcome of
\* the dict comprehension.
properties_schema(properties, compiled, kw) ==
    IF compiled.st = "raise" THEN compiled
    ELSE cls(("type" :> "object")
                @@ ("properties" :> as_mapping(properties.items, compiled.v)),
             kw, compiled.calls)

from_properties(properties, fb, kw) ==
    properties_schema(
        properties,
        reraise_helper_error(
            compile_each(values_of(properties.items), fb, Ok(<<>>, <<>>)),
            "Exception when creating schema from", properties),
        kw)

\* {key: value for key, value in user_type.__dict__.items()
\*  if not key.startswith('_')}
public_members(items) ==
    SelectSeq(items, LAMBDA it : ~startswith_underscore(it.key))

from_user_type(user_type, fb, kw) ==
    from_properties(DictOf(public_members(class_dict_items(user_type.name))),
                    fb, kw)

\* The handlers list of from_type: position, enabling condition, call.
NumHandlers == 4

is_enabled(i, source) ==
    CASE i = 3 -> source.k = "dict"
      [] i = 4 -> isinstance_type(source) /\ bases_of(source) = <<>>
      [] OTHER -> TRUE

run_handler(i, source, fb, kw) ==
    CASE i = 1 -> from_type_hint(source, fb, kw)
      [] i = 2 -> from_builtin_simple_type(source, fb, kw)
      [] i = 3 -> from_properties(source, fb, kw)
      [] i = 4 -> from_user_type(source, fb, kw)

\* Mutant of catch: SchemaHelperError is swallowed like
\* SchemaHelperUnhandled and the loop moves on.
catch_swallowing(source, r) ==
    IF r.st = "ok" THEN [cont |-> FALSE, out |-> r]
    ELSE IF r.exc.type \in {"SchemaHelperUnhandled", "SchemaHelperError"}
    THEN [cont |-> TRUE, out |-> r]
    ELSE [cont |-> FALSE,
          out |-> Raise(Exc("SchemaHelperError",
                            "Could not create schema from", source, r.exc),
                        r.calls)]

\* The try/except around one handler call, given the handler's outcome r:
\* SchemaHelperUnhandled moves on to the next handler, SchemaHelperError
\* is re-raised, any other exception is wrapped in a SchemaHelperError.
catch(source, r) ==
    IF r.st = "ok" THEN [cont |-> FALSE, out |-> r]
    ELSE IF r.exc.type = "SchemaHelperUnhandled"
    THEN [cont |-> TRUE, out |-> r]
    ELSE IF r.exc.type = "SchemaHelperError"
    THEN [cont |-> FALSE, out |-> r]
    ELSE [cont |-> FALSE,
          out |-> Raise(Exc("SchemaHelperError",
                            "Could not create schema from", source, r.exc),
                        r.calls)]

try_handler(i, source, fb, kw) == catch(source, run_handler(i, source, fb, kw))

\* raise SchemaHelperError('Can not create schema from type: {source!r}')
cannot_create(source, calls) ==
    Raise(Exc("SchemaHelperError", "Can not create schema from type:",
              source, NoCause), calls)

\* Mutant of fallback_outcome: the handler's result is returned without the
\* test for None.
fallback_outcome_unchecked(source, r, calls) ==
    IF r.st = "raise" THEN Raise(r.exc, calls \o r.calls)
    ELSE Ok(r.v, calls \o r.calls)

\* What from_type does with the fallback handler's outcome r.
fallback_outcome(source, r, calls) ==
    IF r.st = "raise" THEN Raise(r.exc, calls \o r.calls)
    ELSE IF r.v # None THEN Ok(r.v, calls \o r.calls)
    ELSE cannot_create(source, calls \o r.calls)

\* After the loop: the fallback handler, then the final SchemaHelperError.
after_handlers(source, fb, kw, calls) ==
    IF fb # "None"
    THEN fallback_outcome(source, fallback_call(fb, source, kw), calls)
    ELSE cannot_create(source, calls)

RECURSIVE handler_loop(_, _, _, _, _)

loop_step(i, source, fb, kw, calls, t) ==
    IF t.cont THEN handler_loop(i + 1, source, fb, kw, calls \o t.out.calls)
    ELSE with_calls(calls, t.out)

handler_loop(i, source, fb, kw, calls) ==
    IF i > NumHandlers THEN after_handlers(source, fb, kw, calls)
    ELSE IF ~is_enabled(i, source)
    THEN handler_loop(i + 1, source, fb, kw, calls)
    ELSE loop_step(i, source, fb, kw, calls, try_handler(i, source, fb, kw))

\* Mutant of is_premade: only a Schema is passed through, not a Reference.
is_premade_schema_only(source) == source.k = "Schema"

\* isinstance(source, (Schema, Reference))
is_premade(source) == source.k \in {"Schema", "Reference"}

from_type(source, fb, kw) ==
    IF is_premade(source) THEN Ok(source, <<>>)
    ELSE handler_loop(1, source, fb, kw, <<>>)

\* --------------------------------------------------------------- the inputs
\* Sources that are not built from other sources.
PremadeSchema == NewSchema(("type" :> "string") @@ ("title" :> "premade"))

PremadeReference == Reference("#/components/schemas/Pet")

Atoms ==
    {Class(n) : n \in ClassNames}
        \cup { typing_Any, BareGeneric("List"), BareGeneric("Dict"), BareUnion,
               ClassVarOf(None), None, [k |-> "int_value"],
               PremadeSchema, PremadeReference, DictOf(<<>>) }

\* The second parameter or entry of a two-place source.
SideAtoms == {Class("str"), Class("bool"), Class("Book")}

\* What typing accepts as a parameter of a generic, a union or ClassVar:
\* classes, generics, Any and subscripted unions.
is_type_arg(c) ==
    \/ c.k \in {"class", "GenericMeta", "_Any"}
    \/ c.k = "_Union" /\ ~c.args_is_none

\* Union[c, a] stays a union of two: neither is Any, object or a union, and
\* neither is a subclass of the other.
is_union_pair(c, a) ==
    /\ c.k \in {"class", "GenericMeta"}
    /\ c # a
    /\ c.k = "class" =>
          /\ c.name # "object"
          /\ ~issubclass(c.name, a.name)
          /\ ~issubclass(a.name, c.name)

Wrap(S) ==
    LET T == {c \in S : is_type_arg(c)} IN
    {Generic("List", <<c>>) : c \in T}
        \cup {Generic("Set", <<c>>) : c \in T}
        \cup {Generic("Dict", <<a, c>>) : a \in SideAtoms, c \in T}
        \cup {UnionOf(<<p[1], p[2]>>) :
                p \in {q \in T \X SideAtoms : is_union_pair(q[1], q[2])}}
        \cup {ClassVarOf(c) : c \in T}
        \cup {DictOf(<<[key |-> "name", value |-> c]>>) : c \in S}
        \cup {DictOf(<<[key |-> "name", value |-> c],
                       [key |-> "owner", value |-> a]>>) :
                c \in S, a \in SideAtoms}

RECURSIVE SourcesOfDepth(_)
SourcesOfDepth(d) ==
    IF d = 0 THEN Atoms ELSE Atoms \cup Wrap(SourcesOfDepth(d - 1))

Sources == SourcesOfDepth(MaxDepth)

\* The keyword overrides: title is a Schema attribute, type is one that the
\* handlers also pass themselves, nullable is no attribute of Schema.
OverrideKeys == {"title", "type", "nullable"}

override_value(key) ==
    CASE key = "title" -> "Pet" [] key = "type" -> "custom" [] OTHER -> "yes"

KwargsSets ==
    { [key \in S |-> override_value(key)] :
        S \in {X \in SUBSET OverrideKeys : Cardinality(X) <= MaxKwargs} }

\* ========================================================= the object model
\* A str instance, as the sequence of its segments: "/" is a segment of
\* its own, so that posixpath.join can be computed on it.
Str(segments) == [k |-> "str", s |-> segments]

\* The REQUIRED sentinel.
REQUIRED == [k |-> "Sentinel", name |-> "REQUIRED"]

\* A member of the enum ParameterLocation.
ParameterLocation(value) == [k |-> "ParameterLocation", value |-> Str(<<value>>)]

QUERY == ParameterLocation("query")

\* attr.ib(default=..., validator=..., convert=..., metadata=...) for the
\* attribute called name; the __init__ parameter drops a leading underscore.
attr_ib(name, kw) ==
    [name      |-> name,
     arg       |-> IF name = "_type" THEN "type" ELSE name,
     default   |-> kw.default,
     validator |-> IF "validator" \in DOMAIN kw THEN kw.validator ELSE <<>>,
     convert   |-> IF "convert" \in DOMAIN kw THEN kw.convert ELSE "None",
     metadata  |-> IF "metadata" \in DOMAIN kw THEN kw.metadata ELSE EmptyMap]

\* attr_skippable(**kwargs): kwargs.setdefault('default', SKIP)
attr_skippable(name, kw) ==
    attr_ib(name, kw @@ ("default" :> SKIP))

\* attr_required(**kwargs): kwargs.setdefault('default', REQUIRED), and
\* validate_required is put in front of the validators that were given.
attr_required(name, kw) ==
    attr_ib(name,
            ("validator" :> (<<"validate_required">>
                \o (IF "validator" \in DOMAIN kw THEN kw.validator ELSE <<>>)))
                @@ kw @@ ("default" :> REQUIRED))

\* Mutant of ref_name_attribute: the attribute is not marked non_spec.
ref_name_attribute_in_spec ==
    attr_ib("ref_name", "default" :> None)

\* MayBeReferenced.ref_name
ref_name_attribute ==
    attr_ib("ref_name",
            ("default" :> None) @@ ("metadata" :> ("non_spec" :> TRUE)))

\* The attribute names that are declared with a bare attr_skippable().
SkippableNames(kind) ==
    CASE kind = "Info" ->
            <<"description", "terms_of_service", "contact", "license">>
      [] kind = "Contact" -> <<"name", "url", "email">>
      [] kind = "License" -> <<"name", "url">>
      [] kind = "OpenAPI" ->
            <<"servers", "components", "security", "tags", "external_docs">>
      [] kind = "PathItem" ->
            <<"summary", "description", "get", "put", "post", "delete",
              "options", "head", "patch", "trace", "parameters">>
      [] kind = "Operation" ->
            <<"operation_id", "parameters", "request_body">>
      [] kind = "Parameter" ->
            <<"description", "required", "deprecated", "allow_empty_value",
              "schema">>
      [] kind = "RequestBody" -> <<"description">>
      [] kind = "Response" -> <<"content">>
      [] kind = "MediaType" -> <<"example">>
      [] kind = "Components" ->
            <<"schemas", "responses", "parameters", "examples",
              "request_bodies", "headers", "security_schemas", "links",
              "callbacks">>
      [] OTHER -> <<>>

skippables(kind) ==
    [i \in DOMAIN SkippableNames(kind) |->
        attr_skippable(SkippableNames(kind)[i], EmptyMap)]

\* The attributes of Schema, in declaration order.
SchemaAttributeNames ==
    << "title", "description", "default", "examples", "definitions", "_type",
       "multiple_of", "maximum", "exclusive_maximum", "minimum",
       "exclusive_minimum", "max_length", "min_length", "pattern", "items",
       "additional_items", "format", "all_of", "one_of", "not_", "any_of",
       "properties", "additional_properties", "required", "read_only",
       "write_only", "example" >>

schema_attributes ==
    [i \in DOMAIN SchemaAttributeNames |->
        attr_skippable(SchemaAttributeNames[i],
                       IF SchemaAttributeNames[i] = "required"
                       THEN ("convert" :> "convert_skippable(set)")
                       ELSE EmptyMap)]

\* attr.fields(cls): the attributes of an entity class, those of the base
\* class MayBeReferenced first.
fields(kind) ==
    CASE kind = "Info" ->
            <<attr_required("title", EmptyMap)>> \o skippables(kind)
                \o <<attr_ib("version",
                        ("default" :> Str(<<"0.0.1-dev">>))
                            @@ ("validator" :> <<"instance_of(str)">>))>>
      [] kind = "OpenAPI" ->
            <<attr_ib("openapi",
                      ("default" :> Str(<<"3.0.0">>))
                          @@ ("validator" :> <<"instance_of(str)">>)),
              attr_required("info", EmptyMap),
              attr_skippable("servers", EmptyMap),
              attr_required("paths", EmptyMap)>>
                \o Tail(skippables(kind))
      [] kind = "Operation" ->
            <<attr_skippable("tags", EmptyMap),
              attr_skippable("summary", EmptyMap),
              attr_skippable("description", EmptyMap),
              attr_required("responses", EmptyMap)>> \o skippables(kind)
      [] kind = "Parameter" ->
            <<ref_name_attribute,
              attr_required("name", EmptyMap),
              attr_required("in_", ("default" :> QUERY)
                                     @@ ("convert" :> "enum_to_string"))>>
                \o skippables(kind)
      [] kind = "RequestBody" ->
            <<ref_name_attribute, attr_required("content", EmptyMap)>>
                \o skippables(kind)
      [] kind = "Response" ->
            <<ref_name_attribute, attr_required("description", EmptyMap)>>
                \o skippables(kind)
      [] kind = "MediaType" ->
            <<attr_required("schema", EmptyMap)>> \o skippables(kind)
      [] kind = "Schema" -> <<ref_name_attribute>> \o schema_attributes
      [] kind = "Reference" ->
            <<attr_required("ref", ("metadata" :> ("spec_name" :> "$ref")))>>
      [] OTHER -> skippables(kind)

EntityKinds ==
    { "Info", "Contact", "License", "OpenAPI", "PathItem", "Operation",
      "Parameter", "RequestBody", "Response", "MediaType", "Schema",
      "Reference", "Components" }

\* enum_to_string(member): member.value
enum_to_string(value) ==
    IF value.k = "ParameterLocation" THEN Ok(value.value, <<>>)
    ELSE Raise(Exc("AttributeError", "object has no attribute 'value'", value,
                   NoCause), <<>>)

\* convert_skippable(set)(value): SKIP stays SKIP, anything else goes
\* through set(), which raises TypeError for a value that is not iterable.
convert_skippable_set(value) ==
    IF value = SKIP THEN Ok(SKIP, <<>>)
    ELSE IF value.k \in {"str", "dict", "list"}
    THEN Ok([k |-> "set", of |-> value], <<>>)
    ELSE Raise(Exc("TypeError", "object is not iterable", value, NoCause),
               <<>>)

\* The convert= callable of an attribute, applied to the given value or to
\* the default.
converted(field, value) ==
    CASE field.convert = "enum_to_string" -> enum_to_string(value)
      [] field.convert = "convert_skippable(set)" -> convert_skippable_set(value)
      [] OTHER -> Ok(value, <<>>)

\* validate_required(instance, attribute, value)
validate_required(kind, field, value) ==
    IF value = REQUIRED
    THEN Raise(Exc("ValueError", "Missing required attribute",
                   [attribute_name |-> field.name, type |-> kind], NoCause),
               <<>>)
    ELSE Ok(None, <<>>)

\* One validator of an attribute.
run_validator(validator, kind, field, value) ==
    IF validator = "validate_required"
    THEN validate_required(kind, field, value)
    ELSE IF value.k = "str" THEN Ok(None, <<>>)
    ELSE Raise(Exc("TypeError", "must be <class 'str'>",
                   [attribute_name |-> field.name, type |-> kind], NoCause),
               <<>>)

\* The validators of one attribute, in order: the first that raises.
RECURSIVE run_validators(_, _, _, _)
run_validators(validators, kind, field, value) ==
    IF validators = <<>> THEN Ok(None, <<>>)
    ELSE IF run_validator(Head(validators), kind, field, value).st = "raise"
    THEN run_validator(Head(validators), kind, field, value)
    ELSE run_validators(Tail(validators), kind, field, value)

\* An entity: the attribute values by __init__ parameter name; an
\* attribute that holds SKIP is left out of the map.
new_entity(kind, values) ==
    IF kind = "Reference" THEN Reference(values["ref"])
    ELSE [k |-> kind,
          f |-> [a \in {b \in DOMAIN values : values[b] # SKIP} |-> values[a]]]

\* The value of an attribute of an entity.
attribute_value(entity, field) ==
    IF entity.k = "Reference" THEN entity.ref
    ELSE IF field.arg \in DOMAIN entity.f THEN entity.f[field.arg]
    ELSE IF field.name = "ref_name" THEN None
    ELSE SKIP

\* Some step of a sequence of steps raised.
raised(outcomes) ==
    \E i \in DOMAIN outcomes : outcomes[i].st = "raise"

\* The outcome of the first step that raised.
first_raised(outcomes) ==
    outcomes[CHOOSE i \in DOMAIN outcomes :
                /\ outcomes[i].st = "raise"
                /\ \A j \in 1..(i - 1) : outcomes[j].st # "raise"]

\* The value an attribute is given: the keyword argument, else the default.
given(field, supplied) ==
    IF field.arg \in DOMAIN supplied THEN supplied[field.arg]
    ELSE field.default

\* The second half of the generated __init__: every validator of every
\* attribute fs[i], in declaration order, once all attributes are assigned.
validated(kind, fs, values) ==
    CHOOSE out \in
        { IF raised(checks) THEN first_raised(checks)
          ELSE Ok(new_entity(kind, values), <<>>) :
          checks \in { [i \in DOMAIN fs |->
                          run_validators(fs[i].validator, kind, fs[i],
                                         values[fs[i].arg])] } } : TRUE

\* The first half of the generated __init__: each attribute fs[i] gets the
\* supplied value or its default, through its convert= callable.
assigned(kind, fs, supplied) ==
    CHOOSE out \in
        { IF raised(conversions) THEN first_raised(conversions)
          ELSE validated(kind, fs,
                  [a \in {fs[i].arg : i \in DOMAIN fs} |->
                      conversions[CHOOSE i \in DOMAIN fs : fs[i].arg = a].v]) :
          conversions \in { [i \in DOMAIN fs |->
                               converted(fs[i], given(fs[i], supplied))] } } :
        TRUE

\* kind(**supplied): the __init__ that attr.s generates.  A keyword that is
\* no attribute raises TypeError; each attribute gets the supplied value or
\* its default, through its convert= callable; then the validators run.
construct(kind, supplied) ==
    CHOOSE out \in
        { IF ~(DOMAIN supplied \subseteq {fs[i].arg : i \in DOMAIN fs})
          THEN Raise(Exc("TypeError", "got an unexpected keyword argument",
                         None, NoCause), <<>>)
          ELSE assigned(kind, fs, supplied) :
          fs \in {fields(kind)} } : TRUE

\* ============================================================== Components
\* dict.get(key): the value stored under key, or None.
dict_get(d, key) ==
    IF \E i \in DOMAIN d.items : d.items[i].key = key
    THEN d.items[CHOOSE i \in DOMAIN d.items : d.items[i].key = key].value
    ELSE None

\* d[key] = value: an existing key keeps its place and gets the new value.
dict_set(d, key, value) ==
    IF \E i \in DOMAIN d.items : d.items[i].key = key
    THEN DictOf([i \in DOMAIN d.items |->
                    IF d.items[i].key = key
                    THEN [key |-> key, value |-> value] ELSE d.items[i]])
    ELSE DictOf(Append(d.items, [key |-> key, value |-> value]))

\* The outcome of a method of Components together with the Components
\* object as the call leaves it.
Left(out, self) == [out |-> out, self |-> self]

COMPONENT_TYPES ==
    << [base |-> "Schema",      component_type |-> "schemas"],
       [base |-> "Response",    component_type |-> "responses"],
       [base |-> "Parameter",   component_type |-> "parameters"],
       [base |-> "RequestBody", component_type |-> "request_bodies"] >>

\* isinstance(spec, base): the entity classes have no subclasses.
isinstance(spec, base) == spec.k = base

RECURSIVE component_type_lookup(_, _)
\* for base, component_type in COMPONENT_TYPES.items(): the index of the
\* first entry the entity is an instance of, 0 when there is none.
component_type_lookup(spec, i) ==
    IF i > Len(COMPONENT_TYPES) THEN 0
    ELSE IF isinstance(spec, COMPONENT_TYPES[i].base) THEN i
    ELSE component_type_lookup(spec, i + 1)

\* Components.component_type_for_spec.  After the loop the message of the
\* TypeError is built with 'Unhandled type: {spec}'.format(type=...): the
\* field spec is not among the arguments and str.format raises KeyError.
component_type_for_spec(spec) ==
    IF component_type_lookup(spec, 1) # 0
    THEN Ok(COMPONENT_TYPES[component_type_lookup(spec, 1)].component_type,
            <<>>)
    ELSE Raise(Exc("KeyError", "spec", spec, NoCause), <<>>)

\* getattr(self, name) of a Components object.
getattr(self, name) ==
    IF name \in DOMAIN self.f THEN self.f[name] ELSE SKIP

\* setattr(self, name, value)
setattr(self, name, value) ==
    [k |-> self.k, f |-> (name :> value) @@ self.f]

\* spec.ref_name
ref_name(spec) == attribute_value(spec, ref_name_attribute)

\* Components.get_registry_for_spec
get_registry_for_spec(self, spec) ==
    IF component_type_for_spec(spec).st = "raise"
    THEN component_type_for_spec(spec)
    ELSE IF getattr(self, component_type_for_spec(spec).v) # SKIP
    THEN Ok(getattr(self, component_type_for_spec(spec).v), <<>>)
    ELSE Ok(None, <<>>)

\* Components.create_registry_for_spec
create_registry_for_spec(self, spec) ==
    IF get_registry_for_spec(self, spec).st = "raise"
    THEN Left(get_registry_for_spec(self, spec), self)
    ELSE IF get_registry_for_spec(self, spec).v # None
    THEN Left(get_registry_for_spec(self, spec), self)
    ELSE Left(Ok(DictOf(<<>>), <<>>),
              setattr(self, component_type_for_spec(spec).v, DictOf(<<>>)))

\* One step of posixpath.join: the path so far and the next component b.
join_step(path, b) ==
    IF b # <<>> /\ b[1] = "/" THEN b
    ELSE IF path = <<>> \/ path[Len(path)] = "/" THEN path \o b
    ELSE path \o <<"/">> \o b

\* posixpath.join(a, b, c) of three values; TypeError when one is no str.
posixpath_join(a, b, c) ==
    IF \E x \in {a, b, c} : x.k # "str"
    THEN Raise(Exc("TypeError", "expected str, bytes or os.PathLike object",
                   <<a, b, c>>, NoCause), <<>>)
    ELSE Ok(Str(join_step(join_step(a.s, b.s), c.s)), <<>>)

\* Components.get_ref_str
get_ref_str(self, spec) ==
    IF component_type_for_spec(spec).st = "raise"
    THEN component_type_for_spec(spec)
    ELSE posixpath_join(Str(<<"#", "/", "components">>),
                        Str(<<component_type_for_spec(spec).v>>),
                        ref_name(spec))

\* Components.get_ref
get_ref(self, spec) ==
    IF get_ref_str(self, spec).st = "raise" THEN get_ref_str(self, spec)
    ELSE construct("Reference", "ref" :> get_ref_str(self, spec).v)

\* Components.get_stored
get_stored(self, spec) ==
    IF get_registry_for_spec(self, spec).st = "raise"
    THEN get_registry_for_spec(self, spec)
    ELSE IF get_registry_for_spec(self, spec).v = None THEN Ok(None, <<>>)
    ELSE Ok(dict_get(get_registry_for_spec(self, spec).v, ref_name(spec)),
            <<>>)

\* Components.exists
exists(self, spec) ==
    IF get_stored(self, spec).st = "raise" THEN get_stored(self, spec)
    ELSE Ok(get_stored(self, spec).v # None, <<>>)

\* registry[spec.ref_name] = spec, the registry being the dict that the
\* attribute of self refers to.
set_entry(self, spec) ==
    setattr(self, component_type_for_spec(spec).v,
            dict_set(getattr(self, component_type_for_spec(spec).v),
                     ref_name(spec), spec))

\* Components.store
store(self, spec) ==
    IF create_registry_for_spec(self, spec).out.st = "raise"
    THEN create_registry_for_spec(self, spec)
    ELSE Left(get_ref(self, spec),
              set_entry(create_registry_for_spec(self, spec).self, spec))

\* =========================================================== serialization
\* openapilib.serialization is not among the source files; the renderer
\* below follows section 4.2 of the specification and the example of the
\* package docstring, and calls the methods of Components modelled above.

\* isinstance(spec, MayBeReferenced): the class has the attribute ref_name.
may_be_referenced(spec) ==
    /\ spec.k \in EntityKinds
    /\ \E i \in DOMAIN fields(spec.k) : fields(spec.k)[i].name = "ref_name"

\* metadata non_spec: the attribute is no part of the document.
non_spec(field) ==
    /\ "non_spec" \in DOMAIN field.metadata
    /\ field.metadata["non_spec"]

\* An identifier without its one trailing underscore (not_, in_) and, as
\* the docstring example shows for _type, without its leading one.
strip_underscore(name) ==
    CASE name = "not_"  -> "not"
      [] name = "in_"   -> "in"
      [] name = "_type" -> "type"
      [] OTHER          -> name

\* snake_case to camelCase, for the identifiers of more than one word that
\* the entity classes declare; an identifier of one word is unchanged.
to_camel_case(name) ==
    CASE name = "terms_of_service"      -> "termsOfService"
      [] name = "external_docs"         -> "externalDocs"
      [] name = "operation_id"          -> "operationId"
      [] name = "request_body"          -> "requestBody"
      [] name = "allow_empty_value"     -> "allowEmptyValue"
      [] name = "multiple_of"           -> "multipleOf"
      [] name = "exclusive_maximum"     -> "exclusiveMaximum"
      [] name = "exclusive_minimum"     -> "exclusiveMinimum"
      [] name = "max_length"            -> "maxLength"
      [] name = "min_length"            -> "minLength"
      [] name = "additional_items"      -> "additionalItems"
      [] name = "all_of"                -> "allOf"
      [] name = "one_of"                -> "oneOf"
      [] name = "any_of"                -> "anyOf"
      [] name = "additional_properties" -> "additionalProperties"
      [] name = "read_only"             -> "readOnly"
      [] name = "write_only"            -> "writeOnly"
      [] name = "request_bodies"        -> "requestBodies"
      [] name = "security_schemas"      -> "securitySchemas"
      [] name = "ref_name"              -> "refName"
      [] OTHER                          -> name

\* The key of a field in the document: the declared spec_name, else the
\* converted identifier.
wire_name(field) ==
    IF "spec_name" \in DOMAIN field.metadata
    THEN field.metadata["spec_name"]
    ELSE to_camel_case(strip_underscore(field.name))

\* Reference substitution: an entity whose name is already in the registry
\* is not stored again, the reference to the existing entry is returned;
\* else the entity is stored.
register(self, spec) ==
    IF exists(self, spec).v THEN Left(get_ref(self, spec), self)
    ELSE store(self, spec)

RECURSIVE render(_, _, _)
RECURSIVE render_fields(_, _, _, _)
RECURSIVE render_items(_, _, _)
RECURSIVE render_elements(_, _, _)

\* A list instance.
ListOf(items) == [k |-> "list", items |-> items]

\* The list so far with one more element: r is its rendering.
append(acc, r) == Left(ListOf(Append(acc.out.items, r.out)), r.self)

\* The document so far with one more key: r is the rendering of its value.
put(acc, key, r) == Left(dict_set(acc.out, key, r.out), r.self)

\* The fields of an entity that are rendered, in declaration order: a
\* field that holds SKIP and a non_spec field are left out.
rendered_fields(entity) ==
    SelectSeq(fields(entity.k),
              LAMBDA field : /\ attribute_value(entity, field) # SKIP
                             /\ ~non_spec(field))

\* Each of the fields fs under its wire name, the value rendered.  The
\* document so far (a) and the rendering of the value (r) are local
\* variables: each is computed once.
render_fields(entity, fs, referencing, acc) ==
    IF fs = <<>> THEN acc
    ELSE CHOOSE next \in UNION {
            { render_fields(entity, Tail(fs), referencing,
                            put(a, Str(<<wire_name(Head(fs))>>), r)) :
              r \in {render(attribute_value(entity, Head(fs)), referencing,
                            a.self)} } :
            a \in {acc} } : TRUE

\* The entries of a mapping, in order, each value rendered.
render_items(items, referencing, acc) ==
    IF items = <<>> THEN acc
    ELSE CHOOSE next \in UNION {
            { render_items(Tail(items), referencing,
                           put(a, Head(items).key, r)) :
              r \in {render(Head(items).value, referencing, a.self)} } :
            a \in {acc} } : TRUE

\* The elements of a sequence, in order, each rendered.
render_elements(elements, referencing, acc) ==
    IF elements = <<>> THEN acc
    ELSE CHOOSE next \in UNION {
            { render_elements(Tail(elements), referencing, append(a, r)) :
              r \in {render(Head(elements), referencing, a.self)} } :
            a \in {acc} } : TRUE

\* render(value, context): self is the Components object of the context,
\* referencing its flag.
render(value, referencing, self) ==
    IF may_be_referenced(value) /\ referencing /\ ref_name(value) # None
    THEN CHOOSE rendered \in
            { render(r.out.v, referencing, r.self) :
              r \in {register(self, value)} } : TRUE
    ELSE IF value.k \in EntityKinds
    THEN render_fields(value, rendered_fields(value), referencing,
                       Left(DictOf(<<>>), self))
    ELSE IF value.k = "dict"
    THEN render_items(value.items, referencing, Left(DictOf(<<>>), self))
    ELSE IF value.k = "list"
    THEN render_elements(value.items, referencing, Left(ListOf(<<>>), self))
    ELSE Left(value, self)

\* The components section: the registry rendered with referencing disabled.
with_components(r) ==
    dict_set(r.out, Str(<<"components">>), render(r.self, FALSE, r.self).out)

\* serialize_spec(root): one context with an empty registry of its own,
\* the root rendered with referencing enabled, then the components section.
serialize_spec(root) ==
    CHOOSE document \in
        { with_components(r) :
          r \in {render(root, TRUE, [k |-> "Components", f |-> EmptyMap])} } :
        TRUE

\* ---------------------------------------------------------------- the state
VARIABLES
    pc,                 \* "idle", "handlers" (in the handler loop), "done"
    source,             \* the arguments of the from_type call in progress
    fallback_handler,
    kwargs,
    handler,            \* position in the handlers list, 1..NumHandlers + 1
    ran,                \* the handlers called so far, in order
    nested_calls,       \* fallback invocations made inside the handlers
    loop_calls,         \* fallback invocations made by from_type itself
    result,             \* the outcome of the call, once done
    components,         \* a Components entity, the component registry
    registered,         \* (kind, name) -> the first reference and body stored
    op                  \* the last operation on the object model, its outcome

vars ==
    << pc, source, fallback_handler, kwargs, handler, ran, nested_calls,
       loop_calls, result, components, registered, op >>

\* The state of the Schema.from_type call and the state of the object model.
from_type_vars ==
    << pc, source, fallback_handler, kwargs, handler, ran, nested_calls,
       loop_calls, result >>

object_vars == << components, registered, op >>

NoOp == [name |-> "none"]

NoResult == [st |-> "pending"]

Init ==
    /\ pc = "idle"
    /\ source = None
    /\ fallback_handler = "None"
    /\ kwargs = EmptyMap
    /\ handler = 0
    /\ ran = <<>>
    /\ nested_calls = <<>>
    /\ loop_calls = <<>>
    /\ result = NoResult
    /\ components = [k |-> "Components", f |-> EmptyMap]
    /\ registered = EmptyMap
    /\ op = NoOp

\* The first lines of Schema.from_type(src, fallback_handler=fb, **kw): a
\* pre-made Schema or Reference is returned at once, anything else enters
\* the handler loop.
Enter(src, fb, kw) ==
    /\ source' = src
    /\ fallback_handler' = fb
    /\ kwargs' = kw
    /\ ran' = <<>>
    /\ nested_calls' = <<>>
    /\ loop_calls' = <<>>
    /\ IF is_premade(src)
       THEN /\ pc' = "done"
            /\ handler' = 0
            /\ result' = Ok(src, <<>>)
       ELSE /\ pc' = "handlers"
            /\ handler' = 1
            /\ result' = NoResult

\* A caller calls Schema.from_type with some source, fallback handler and
\* keyword overrides.
Call ==
    /\ pc = "idle"
    /\ \E src \in Sources, fb \in FallbackHandlers, kw \in KwargsSets :
          Enter(src, fb, kw)
    /\ UNCHANGED object_vars

\* A (handler, is_enabled) entry whose condition is false is passed over.
SkipHandler ==
    /\ pc = "handlers"
    /\ handler <= NumHandlers
    /\ ~is_enabled(handler, source)
    /\ handler' = handler + 1
    /\ UNCHANGED << pc, source, fallback_handler, kwargs, ran, nested_calls,
                    loop_calls, result >>
    /\ UNCHANGED object_vars

\* What the loop does with the outcome t of one try.
Caught(t) ==
    /\ ran' = Append(ran, handler)
    /\ nested_calls' = nested_calls \o t.out.calls
    /\ IF t.cont
       THEN /\ handler' = handler + 1
            /\ UNCHANGED << pc, result >>
       ELSE /\ pc' = "done"
            /\ result' = with_calls(nested_calls, t.out)
            /\ UNCHANGED handler

\* One iteration of the loop: the handler is called inside the try.
TryHandler ==
    /\ pc = "handlers"
    /\ handler <= NumHandlers
    /\ is_enabled(handler, source)
    /\ Caught(try_handler(handler, source, fallback_handler, kwargs))
    /\ UNCHANGED << source, fallback_handler, kwargs, loop_calls >>
    /\ UNCHANGED object_vars

\* The loop is over: the fallback handler if there is one, else the error.
AfterHandlers ==
    /\ pc = "handlers"
    /\ handler > NumHandlers
    /\ pc' = "done"
    /\ result' = after_handlers(source, fallback_handler, kwargs, nested_calls)
    /\ loop_calls' =
          after_handlers(source, fallback_handler, kwargs, <<>>).calls
    /\ UNCHANGED << source, fallback_handler, kwargs, handler, ran,
                    nested_calls >>
    /\ UNCHANGED object_vars

\* The caller has the outcome; the next call may start.
Return ==
    /\ pc = "done"
    /\ pc' = "idle"
    /\ source' = None
    /\ fallback_handler' = "None"
    /\ kwargs' = EmptyMap
    /\ handler' = 0
    /\ ran' = <<>>
    /\ nested_calls' = <<>>
    /\ loop_calls' = <<>>
    /\ result' = NoResult
    /\ UNCHANGED object_vars

Next ==
    \/ Call
    \/ SkipHandler
    \/ TryHandler
    \/ AfterHandlers
    \/ Return

Spec == Init /\ [][Next]_vars

\* The stepwise call and the recursive definition of from_type agree.
StepsAgreeWithFromType ==
    pc = "done" => result = from_type(source, fallback_handler, kwargs)

\* ------------------------------------------------- the object model: inputs
\* The keyword arguments that are varied when an entity is constructed:
\* ref_name, those of the attributes that have a validator or a convert=
\* callable, and of the first plainly skippable attribute.
ChosenArgs(kind) ==
    {fields(kind)[i].arg :
        i \in {j \in DOMAIN fields(kind) :
                 \/ fields(kind)[j].name = "ref_name"
                 \/ fields(kind)[j].validator # <<>>
                 \/ fields(kind)[j].convert # "None"}}
        \cup (IF SkippableNames(kind) = <<>> THEN {}
              ELSE {SkippableNames(kind)[1]})

\* The values a keyword argument is given.
ArgValues == {None, Str(<<"x">>), ParameterLocation("path")}

SuppliedSets(kind) ==
    UNION {[S -> ArgValues] : S \in SUBSET ChosenArgs(kind)}

\* -------------------------------------------- the object model: operations
\* The caller has the outcome of the last operation; the next may start.
Returned ==
    /\ op.name # "none"
    /\ op' = NoOp
    /\ UNCHANGED << components, registered >>
    /\ UNCHANGED from_type_vars

\* Some code constructs an entity: kind(**supplied).
Construct ==
    /\ op.name = "none"
    /\ \E kind \in EntityKinds : \E supplied \in SuppliedSets(kind) :
          op' = [name |-> "construct", kind |-> kind, supplied |-> supplied,
                 out |-> construct(kind, supplied)]
    /\ UNCHANGED << components, registered >>
    /\ UNCHANGED from_type_vars

\* The entities that are handed to the methods of Components: two Schemas
\* of the same name with different bodies, a Schema without a name, one
\* Response and one RequestBody, and an Info, which is no component.
Entity(kind, f) == [k |-> kind, f |-> f]

Named(kind, name, f) == Entity(kind, ("ref_name" :> Str(name)) @@ f)

Specs ==
    { Named("Schema", <<"Pet">>, "title" :> Str(<<"A">>)),
      Named("Schema", <<"Pet">>, "title" :> Str(<<"B">>)),
      Entity("Schema", ("ref_name" :> None) @@ ("title" :> Str(<<"A">>))),
      Named("Response", <<"Pet">>, "description" :> Str(<<"ok">>)),
      Named("RequestBody", <<"Body">>, "content" :> DictOf(<<>>)),
      Entity("Info", "title" :> Str(<<"Foo">>)) }

\* Entities that are only handed to the methods that read: a Parameter, a
\* Schema whose name starts with a slash, one whose name holds a slash.
OnlyRead ==
    { Named("Parameter", <<"Limit">>,
            ("name" :> Str(<<"limit">>)) @@ ("in_" :> Str(<<"query">>))),
      Named("Schema", <<"/", "Pet">>, "title" :> Str(<<"A">>)),
      Named("Schema", <<"v1", "/", "Pet">>, "title" :> Str(<<"A">>)) }

\* The key of an entry of the registry: the partition and the name.
EntryKey(spec) ==
    [component_type |-> component_type_for_spec(spec).v, name |-> ref_name(spec)]

\* What a call of store adds to the record of first registrations.
first_registration(r, spec) ==
    IF r.out.st = "ok" /\ EntryKey(spec) \notin DOMAIN registered
    THEN (EntryKey(spec) :> [ref |-> r.out.v, body |-> spec]) @@ registered
    ELSE registered

\* A method call that may change the Components object.
Mutate(name, spec, r) ==
    /\ components' = r.self
    /\ op' = [name |-> name, spec |-> spec, out |-> r.out,
              before |-> components]

\* A method call that only reads the Components object.
Query(name, spec, out) ==
    /\ op' = [name |-> name, spec |-> spec, out |-> out]
    /\ UNCHANGED << components, registered >>

Store ==
    /\ op.name = "none"
    /\ \E spec \in Specs :
          /\ Mutate("store", spec, store(components, spec))
          /\ registered' = first_registration(store(components, spec), spec)
    /\ UNCHANGED from_type_vars

CreateRegistryForSpec ==
    /\ op.name = "none"
    /\ \E spec \in Specs :
          Mutate("create_registry_for_spec", spec,
                 create_registry_for_spec(components, spec))
    /\ UNCHANGED registered
    /\ UNCHANGED from_type_vars

ComponentTypeForSpec ==
    /\ op.name = "none"
    /\ \E spec \in Specs :
          Query("component_type_for_spec", spec, component_type_for_spec(spec))
    /\ UNCHANGED from_type_vars

GetRegistryForSpec ==
    /\ op.name = "none"
    /\ \E spec \in Specs :
          Query("get_registry_for_spec", spec,
                get_registry_for_spec(components, spec))
    /\ UNCHANGED from_type_vars

GetRefStr ==
    /\ op.name = "none"
    /\ \E spec \in Specs \cup OnlyRead :
          Query("get_ref_str", spec, get_ref_str(components, spec))
    /\ UNCHANGED from_type_vars

GetRef ==
    /\ op.name = "none"
    /\ \E spec \in Specs \cup OnlyRead :
          Query("get_ref", spec, get_ref(components, spec))
    /\ UNCHANGED from_type_vars

GetStored ==
    /\ op.name = "none"
    /\ \E spec \in Specs :
          Query("get_stored", spec, get_stored(components, spec))
    /\ UNCHANGED from_type_vars

Exists ==
    /\ op.name = "none"
    /\ \E spec \in Specs : Query("exists", spec, exists(components, spec))
    /\ UNCHANGED from_type_vars

NextEntities ==
    \/ Construct
    \/ Returned

\* The construction of entities.
SpecEntities == Init /\ [][NextEntities]_vars

NextComponents ==
    \/ Store
    \/ CreateRegistryForSpec
    \/ ComponentTypeForSpec
    \/ GetRegistryForSpec
    \/ GetRefStr
    \/ GetRef
    \/ GetStored
    \/ Exists
    \/ Returned

\* The methods of one Components object.
SpecComponents == Init /\ [][NextComponents]_vars

\* ------------------------------------------------- serialization: inputs
\* kind(**supplied) for arguments that construct.
New(kind, supplied) ==
    CHOOSE entity \in { construct(kind, s).v : s \in {supplied} } : TRUE

EmptyComponents == [k |-> "Components", f |-> EmptyMap]

\* The entities that are rendered one by one: two with fields of more
\* than one word and of a trailing or leading underscore, and every entity
\* the enumerated constructor calls produce, with no name or a str for a
\* name.
RenderInputs ==
    { New("Operation",
          ("responses" :> DictOf(<<>>))
          @@ ("request_body" :> New("RequestBody", "content" :> DictOf(<<>>)))
          @@ ("operation_id" :> None)),
      New("Schema",
          ("ref_name" :> Str(<<"Pet">>)) @@ ("type" :> Str(<<"object">>))
          @@ ("not_" :> New("Schema", "type" :> Str(<<"string">>)))
          @@ ("max_length" :> None)) }
    \cup UNION { { made.v :
                    made \in { c \in { construct(kind, s) :
                                        s \in SuppliedSets(kind) } :
                                 /\ c.st = "ok"
                                 /\ ref_name(c.v).k \in {"NoneType", "str"} } } :
                  kind \in EntityKinds }

\* The Schemas of the documents: named and not, one with an explicit None.
DocumentSchemas ==
    { New("Schema", ("ref_name" :> Str(<<"Pet">>)) @@ ("title" :> Str(<<"Pet">>))
                        @@ ("type" :> Str(<<"object">>))),
      New("Schema", ("ref_name" :> Str(<<"Pet">>)) @@ ("description" :> None)),
      New("Schema", "type" :> Str(<<"string">>)),
      New("Schema", ("type" :> Str(<<"object">>))
                        @@ ("properties" :>
                              DictOf(<<[key |-> Str(<<"name">>),
                                        value |-> New("Schema",
                                            "type" :> Str(<<"string">>))]>>))) }

\* The names that are given to the Response, RequestBody and Parameter of a
\* document; None is no name.
PartNames == {None, Str(<<"Item">>)}

\* The RequestBody of the operation, SKIP when it has none.
RequestBodies ==
    {SKIP} \cup { New("RequestBody", ("ref_name" :> n) @@ ("content" :> DictOf(<<>>))) :
                    n \in PartNames }

\* The document of the package docstring, with the given Schema, Response
\* name, RequestBody and Parameter name.
Document(schema, response_name, request_body, parameter_name) ==
    New("OpenAPI",
        ("info" :> New("Info", "title" :> Str(<<"Foo">>)))
        @@ ("paths" :> DictOf(<<
              [key |-> Str(<<"/">>),
               value |-> New("PathItem",
                  "get" :> New("Operation",
                     ("responses" :> DictOf(<<
                         [key |-> Str(<<"200">>),
                          value |-> New("Response",
                             ("ref_name" :> response_name)
                             @@ ("description" :> Str(<<"Your favourite pet">>))
                             @@ ("content" :> DictOf(<<
                                   [key |-> Str(<<"application/json">>),
                                    value |-> New("MediaType",
                                                  "schema" :> schema)]>>)))]>>))
                     @@ ("parameters" :> ListOf(<<
                           New("Parameter",
                               ("ref_name" :> parameter_name)
                               @@ ("name" :> Str(<<"limit">>))
                               @@ ("schema" :> schema))>>))
                     @@ (IF request_body = SKIP THEN EmptyMap
                         ELSE "request_body" :> request_body)))]>>)))

\* ---------------------------------------------- serialization: operations
\* render(entity, context) with a context of its own.
Render ==
    /\ op.name = "none"
    /\ \E entity \in RenderInputs, referencing \in BOOLEAN :
          op' = [name |-> "render", entity |-> entity,
                 referencing |-> referencing,
                 out |-> render(entity, referencing, EmptyComponents)]
    /\ UNCHANGED << components, registered >>
    /\ UNCHANGED from_type_vars

\* serialize_spec(document)
Serialize ==
    /\ op.name = "none"
    /\ \E schema \in DocumentSchemas, response_name \in PartNames,
          request_body \in RequestBodies, parameter_name \in PartNames :
          /\ ref_name(schema) # None => response_name = None
          /\ op' = [name |-> "serialize_spec",
                    schema |-> schema,
                    response_name |-> response_name,
                    request_body |-> request_body,
                    parameter_name |-> parameter_name,
                    out |-> serialize_spec(
                              Document(schema, response_name, request_body,
                                       parameter_name))]
    /\ UNCHANGED << components, registered >>
    /\ UNCHANGED from_type_vars

NextSerialization ==
    \/ Render
    \/ Serialize
    \/ Returned

\* The rendering of entities and documents.
SpecSerialization == Init /\ [][NextSerialization]_vars

\* ------------------------------------------------------------------ claims
\* A finished call that was given no keyword overrides.
PlainCallDone == pc = "done" /\ kwargs = EmptyMap

\* from_type of a nested source, as the handlers call it.
Compiled(src) == from_type(src, fallback_handler, EmptyMap)

\* The fragment the documentation gives for a primitive type.
DocumentedFragment(n) ==
    CASE n = "str"   -> ("type" :> "string")
      [] n = "int"   -> ("type" :> "integer") @@ ("format" :> "int64")
      [] n = "float" -> ("type" :> "number") @@ ("format" :> "double")
      [] n = "bool"  -> ("type" :> "boolean")

\* C1: for each primitive source type str, int, float and bool, from_type
\* returns exactly the documented fragment and nothing else; in particular
\* bool gives {type: boolean}, not the integer fragment.
C1_PrimitiveFragments ==
    (PlainCallDone /\ source \in {Class("str"), Class("int"), Class("float"),
                                  Class("bool")})
        => result = Ok(NewSchema(DocumentedFragment(source.name)), <<>>)

\* Every parameter of the type hint in source compiles.
AllArgsCompile ==
    \A i \in DOMAIN source.args : Compiled(source.args[i]).st = "ok"

\* C2: from_type of a union whose alternatives all compile succeeds with
\* any_of = [from_type(A1), ..., from_type(An)], in order; from_type of the
\* union without alternatives succeeds with the Schema that has no field set.
C2_UnionAnyOf ==
    (PlainCallDone /\ source.k = "_Union")
        => IF source.args_is_none
           THEN result.st = "ok" /\ result.v = NewSchema(EmptyMap)
           ELSE AllArgsCompile =>
                   /\ result.st = "ok"
                   /\ result.v = NewSchema("any_of" :>
                         [i \in DOMAIN source.args |->
                            Compiled(source.args[i]).v])

\* C3: from_type of List[T], T compilable, is {type: array, items:
\* from_type(T)}; from_type of List without a parameter is {type: array}
\* with items left at SKIP.
C3_ListItems ==
    (PlainCallDone /\ source.k = "GenericMeta" /\ source.name = "List")
        => IF source.args_is_none
           THEN result.st = "ok" /\ result.v = NewSchema("type" :> "array")
           ELSE AllArgsCompile =>
                   /\ result.st = "ok"
                   /\ result.v = NewSchema(("type" :> "array") @@
                         ("items" :> Compiled(source.args[1]).v))

\* C4: from_type of Dict[K, V], V compilable, is {type: object,
\* additional_properties: from_type(V)} whatever K is, also a K that does
\* not compile.
C4_DictIgnoresKey ==
    (PlainCallDone /\ source.k = "GenericMeta" /\ source.name = "Dict"
        /\ ~source.args_is_none /\ Compiled(source.args[2]).st = "ok")
        => /\ result.st = "ok"
           /\ result.v = NewSchema(("type" :> "object") @@
                 ("additional_properties" :> Compiled(source.args[2]).v))

\* The names of the members of class n that do not start with '_'.
PublicNames(n) ==
    { class_dict_items(n)[i].key : i \in
        { j \in DOMAIN class_dict_items(n) :
            ~startswith_underscore(class_dict_items(n)[j].key) } }

MemberType(n, m) ==
    (CHOOSE it \in {class_dict_items(n)[i] : i \in DOMAIN class_dict_items(n)} :
        it.key = m).value

\* C5: a user class whose statement names no supertype is handled by
\* from_user_type (the fourth handler) and compiles to {type: object,
\* properties: {m: from_type(t)}} over exactly its public members; a class
\* that names a supertype is never handled by that handler.
C5_UserTypeStep ==
    (PlainCallDone /\ source.k = "class" /\ source.name \in UserClasses)
        => IF declared_bases(source.name) = <<>>
           THEN /\ 4 \in {ran[i] : i \in DOMAIN ran}
                /\ result.st = "ok"
                /\ result.v = NewSchema(("type" :> "object") @@
                      ("properties" :>
                          [m \in PublicNames(source.name) |->
                              Compiled(MemberType(source.name, m)).v]))
           ELSE 4 \notin {ran[i] : i \in DOMAIN ran}

\* The keyword overrides name Schema attributes only, and none of those the
\* handler passes to Schema itself.
KwargsFit(taken) == DOMAIN kwargs \subseteq (SchemaInitArgs \ taken)

C7_PremadeReturnedUnchanged ==
    (pc # "idle" /\ source.k \in {"Schema", "Reference"})
        => /\ pc = "done"
           /\ result = Ok(source, <<>>)
           /\ ran = <<>>
           /\ nested_calls = <<>>
           /\ loop_calls = <<>>

\* C7 witness: a Reference was passed with overrides and a fallback handler.
C7_Witness ==
    /\ pc = "done"
    /\ source = PremadeReference
    /\ kwargs # EmptyMap
    /\ fallback_handler = "returns_schema"
    /\ result.st = "ok"

\* Handler i is attempted for src and does not abstain: it returns or fails.
StepApplies(i, src, fb, kw) ==
    /\ is_enabled(i, src)
    /\ run_handler(i, src, fb, kw).st = "raise"
          => run_handler(i, src, fb, kw).exc.type # "SchemaHelperUnhandled"

\* One of the built-in classification steps applies to src.
Classified(src, fb, kw) ==
    \/ src.k \in {"Schema", "Reference"}
    \/ \E i \in 1..NumHandlers : StepApplies(i, src, fb, kw)

C9_OverridesMerged ==
    (/\ pc = "done"
     /\ source.k \notin {"Schema", "Reference"}
     /\ result.st = "ok"
     /\ result.calls = <<>>)
        => \A key \in DOMAIN kwargs :
              /\ key \in DOMAIN result.v.f
              /\ result.v.f[key] = kwargs[key]

\* No step applies to the source and no fallback handler produces a Schema.
Unrecognized ==
    /\ pc = "done"
    /\ ~Classified(source, fallback_handler, kwargs)
    /\ fallback_handler \in {"None", "returns_none"}

\* C10 as stated: an unrecognized source makes from_type fail with
\* SchemaHelperUnhandled naming the source.
C10_RaisesUnhandled ==
    Unrecognized =>
        /\ result.st = "raise"
        /\ result.exc.type = "SchemaHelperUnhandled"
        /\ result.exc.subject = source

\* C10 amended: an unrecognized source makes from_type fail with
\* SchemaHelperError ('Can not create schema from type: <source>'), the
\* exception class of the fatal errors, naming the source.
C10_RaisesHelperError ==
    Unrecognized =>
        /\ result.st = "raise"
        /\ result.exc.type = "SchemaHelperError"
        /\ result.exc.msg = "Can not create schema from type:"
        /\ result.exc.subject = source

\* C10 witness: the fallback handler was asked and returned None.
C10_Witness ==
    /\ Unrecognized
    /\ fallback_handler = "returns_none"
    /\ loop_calls # <<>>
    /\ result.st = "raise"

\* The nested types of a source: the alternatives of a union, the parameters
\* of a generic, the property types of a mapping.
Members(src) ==
    IF src.k \in {"GenericMeta", "_Union"} THEN src.args
    ELSE IF src.k = "dict" THEN values_of(src.items)
    ELSE <<>>

\* Compiling some nested type of the source raises an exception (whatever
\* its type, the fallback handler's included).
NestedFailure ==
    /\ pc = "done"
    /\ \E i \in DOMAIN Members(source) : Compiled(Members(source)[i]).st = "raise"

\* C11: any exception raised while compiling a nested type (a union member,
\* an array item, a mapping value, a property type, the fallback handler's
\* exceptions included) reaches the caller of Schema.from_type as
\* SchemaHelperError naming the source whose member failed, never as
\* another exception type and never as a successful result.
C11_NestedFailureWrapped ==
    NestedFailure =>
        /\ result.st = "raise"
        /\ result.exc.type = "SchemaHelperError"
        /\ result.exc.subject = source

\* The __init__ parameters of the attributes a class declares with
\* attr_required.
RequiredArgs(kind) ==
    CASE kind = "Info"        -> {"title"}
      [] kind = "OpenAPI"     -> {"info", "paths"}
      [] kind = "Operation"   -> {"responses"}
      [] kind = "Parameter"   -> {"name", "in_"}
      [] kind = "RequestBody" -> {"content"}
      [] kind = "Response"    -> {"description"}
      [] kind = "MediaType"   -> {"schema"}
      [] kind = "Reference"   -> {"ref"}
      [] OTHER                -> {}

\* C12: constructing an entity without a field that is declared with
\* attr_required (every other field left at its default) fails, at
\* construction, with a ValueError that names an omitted field and the
\* entity type; when every such field is supplied, None included,
\* construction succeeds and a field given None holds None.
C12_RequiredAtConstruction ==
    (op.name = "construct" /\ DOMAIN op.supplied \subseteq RequiredArgs(op.kind))
        =>
        LET req == RequiredArgs(op.kind)
            omitted == req \ DOMAIN op.supplied
        IN
        /\ omitted # {} =>
              /\ op.out.st = "raise"
              /\ op.out.exc.type = "ValueError"
              /\ op.out.exc.subject.type = op.kind
              /\ op.out.exc.subject.attribute_name \in omitted
        /\ omitted = {} =>
              /\ op.out.st = "ok"
              /\ \A a \in req :
                    op.supplied[a] = None =>
                        \E i \in DOMAIN fields(op.kind) :
                            /\ fields(op.kind)[i].arg = a
                            /\ attribute_value(op.out.v, fields(op.kind)[i])
                                  = None

\* A call of store that returned, for a name that was already stored in the
\* partition of the entity's kind.
StoredAgain ==
    /\ op.name = "store"
    /\ op.out.st = "ok"
    /\ get_stored(op.before, op.spec).v # None

\* C13: storing an entity under a name that is already stored for its kind
\* returns the same reference as the first registration of that name,
\* leaves exactly one entry under the name, and the stored body is still
\* the first one registered.
C13_FirstDefinitionKept ==
    StoredAgain =>
        /\ op.out.v = registered[EntryKey(op.spec)].ref
        /\ Cardinality(
              {i \in DOMAIN getattr(components, EntryKey(op.spec).component_type).items :
                 getattr(components, EntryKey(op.spec).component_type).items[i].key
                    = ref_name(op.spec)}) = 1
        /\ get_stored(components, op.spec).v = registered[EntryKey(op.spec)].body

\* The name of the partition of the components section for an entity kind,
\* as the OpenAPI document format spells it.
DocumentedPartition(kind) ==
    CASE kind = "Schema"      -> "schemas"
      [] kind = "Response"    -> "responses"
      [] kind = "Parameter"   -> "parameters"
      [] kind = "RequestBody" -> "requestBodies"

\* The reference string the last call produced.
ProducedRef ==
    IF op.name = "get_ref" THEN op.out.v.ref ELSE op.out.v

\* C14: for a Schema, Response, Parameter or RequestBody with the name n,
\* get_ref_str and get_ref produce exactly '#/components/<kind>/' followed
\* by n, <kind> being schemas, responses, parameters or requestBodies.
C14_ReferenceString ==
    (/\ op.name \in {"get_ref_str", "get_ref"}
     /\ op.spec.k \in {"Schema", "Response", "Parameter", "RequestBody"}
     /\ ref_name(op.spec).k = "str")
        => /\ op.out.st = "ok"
           /\ ProducedRef
                = Str(<<"#", "/", "components", "/",
                        DocumentedPartition(op.spec.k), "/">>
                      \o ref_name(op.spec).s)

ComponentKinds == {"Schema", "Response", "Parameter", "RequestBody"}

\* An entity that can not be referenced: it has no name, or its kind is no
\* component kind.
NotReferable(spec) ==
    \/ spec.k \notin ComponentKinds
    \/ ref_name(spec) = None

\* C17: store of an entity that can not be referenced (ref_name None, or no
\* component kind) fails and leaves the Components object as it was: no
\* partition created, no entry added, exists() not true for the entity.
C17_FailedStoreChangesNothing ==
    (op.name = "store" /\ NotReferable(op.spec))
        => /\ op.out.st = "raise"
           /\ components = op.before
           /\ exists(components, op.spec).st = "ok"
                 => ~exists(components, op.spec).v

\* C18: component_type_for_spec returns the partition name of the first
\* kind of COMPONENT_TYPES the entity is an instance of; for an entity of
\* no such kind it raises TypeError, and so do get_registry_for_spec,
\* get_stored, exists and store.
C18_UnhandledTypeError ==
    /\ (op.name = "component_type_for_spec" /\ op.spec.k \in ComponentKinds)
          => /\ op.out.st = "ok"
             /\ \E i \in DOMAIN COMPONENT_TYPES :
                   /\ COMPONENT_TYPES[i].base = op.spec.k
                   /\ \A j \in 1..(i - 1) :
                         COMPONENT_TYPES[j].base # op.spec.k
                   /\ op.out.v = COMPONENT_TYPES[i].component_type
    /\ (/\ op.name \in {"component_type_for_spec", "get_registry_for_spec",
                         "get_stored", "exists", "store"}
        /\ op.spec.k \notin ComponentKinds)
          => /\ op.out.st = "raise"
             /\ op.out.exc.type = "TypeError"

\* No value: the path leads nowhere in the document.
Missing == [k |-> "missing"]

\* The value a path of keys leads to in a rendered document.
RECURSIVE At(_, _)
At(doc, keys) ==
    IF keys = <<>> THEN doc
    ELSE IF /\ doc.k = "dict"
            /\ \E i \in DOMAIN doc.items :
                  doc.items[i].key = Str(<<Head(keys)>>)
    THEN At(dict_get(doc, Str(<<Head(keys)>>)), Tail(keys))
    ELSE Missing

\* The value a reference string '#/a/b/c' names in a document.
Resolve(doc, p) ==
    IF p.k # "str" \/ p.s = <<>> \/ Head(p.s) # "#" THEN Missing
    ELSE At(doc, SelectSeq(Tail(p.s), LAMBDA segment : segment # "/"))

\* The document of the last serialize_spec call and its one Operation.
SerializedDocument ==
    Document(op.schema, op.response_name, op.request_body, op.parameter_name)

SerializedOperation ==
    SerializedDocument.f["paths"].items[1].value.f["get"]

OperationSite == <<"paths", "/", "get">>

\* The use sites of the document that are not inside a named entity: the
\* entity that is used and what the final document holds in its place.
UseSites ==
    { [entity |-> SerializedOperation.f["responses"].items[1].value,
       site   |-> At(op.out, OperationSite \o <<"responses", "200">>)],
      [entity |-> SerializedOperation.f["parameters"].items[1],
       site   |-> At(op.out, OperationSite \o <<"parameters">>).items[1]] }
    \cup (IF op.request_body = SKIP THEN {}
          ELSE { [entity |-> op.request_body,
                  site   |-> At(op.out, OperationSite \o <<"requestBody">>)] })
    \cup (IF op.response_name # None THEN {}
          ELSE { [entity |-> op.schema,
                  site   |-> At(op.out, OperationSite
                                 \o <<"responses", "200", "content",
                                      "application/json", "schema">>)] })
    \cup (IF op.parameter_name # None THEN {}
          ELSE { [entity |-> op.schema,
                  site   |-> dict_get(
                                At(op.out, OperationSite
                                     \o <<"parameters">>).items[1],
                                Str(<<"schema">>))] })

\* The use site is {'$ref': p} and nothing else.
IsRef(site) ==
    /\ site.k = "dict"
    /\ Len(site.items) = 1
    /\ site.items[1].key = Str(<<"$ref">>)

\* The use site is a reference and the document holds the full body of
\* the entity where the reference points.
RefResolves(use) ==
    /\ IsRef(use.site)
    /\ Resolve(op.out, use.site.items[1].value)
          = render(use.entity, FALSE, EmptyComponents).out

\* C15: after serialize_spec, every named Schema, Response, Parameter and
\* RequestBody is {'$ref': p} at its use site and the document holds its
\* full inline body at the place p names under components.
C15_RefsResolve ==
    op.name = "serialize_spec"
        => \A use \in UseSites :
              ref_name(use.entity) # None => RefResolves(use)

\* The entity of the last render call is rendered by its fields: it is not
\* replaced by a reference.
RenderedInline ==
    ~(/\ op.referencing
      /\ may_be_referenced(op.entity)
      /\ ref_name(op.entity) # None)

\* The rendered output has the key.
HasKey(out, key) ==
    /\ out.k = "dict"
    /\ \E i \in DOMAIN out.items : out.items[i].key = key

====
